---- MODULE Spec2Model ----
(***************************************************************************)
(* A model of the outbound rate limiter (src/lib/utils.ts,                  *)
(* throttledNsFetch), of the daily dump ingestion job (src/lib/nsApi.ts,    *)
(* processDailyNationDump) with the endpoint that triggers it               *)
(* (src/pages/api/trigger-dump-update.ts), of the sign endpoint             *)
(* (pages/api/sign.ts) with verifyNation (src/lib/nsApi.ts), of the admin   *)
(* signatures endpoint (pages/api/admin/signatures.ts) and of both versions *)
(* of getNationDisplayData (src/lib/nsApi.ts).                              *)
(*                                                                          *)
(* Time is the value Date.now() returns, in milliseconds.  Timers created  *)
(* by setTimeout fire no earlier than their delay, in the order of their    *)
(* expiry and, for equal expiry, in the order of their creation.            *)
(***************************************************************************)
EXTENDS Integers, Sequences, FiniteSets, TLC

\* ------------------------------------------------------------------ bounds
MaxCalls == 2          \* submissions to throttledNsFetch in one behaviour
MaxFifoCalls == 4      \* submissions in the behaviours that exercise call order
MaxFailures == 1       \* failed attempts (429 or other) in one behaviour
MaxTicks == 1          \* how many tick sizes after the start the clock may be
                       \* advanced freely (besides waiting for a timer)
MaxRuns == 1           \* runs of processDailyNationDump in one behaviour
MaxRepeatRuns == 2     \* runs in the behaviours that repeat or overlap runs
MaxSmallDump == 3      \* record count of the largest dump below one batch
MaxNameless == 1       \* records without a NAME in one dump
MaxSigners == 2        \* sign requests that are handled at the same time
MaxHalfDays == 3       \* half days that pass in the behaviours with lookups

\* ------------------------------------------------------- program constants
DEFAULT_MIN_DELAY_MS == 700
FALLBACK_FACTOR == 5
BATCH_SIZE == 500
MS_PER_SECOND == 1000
TOO_MANY_REQUESTS == 429
CACHE_DURATION_HOURS == 24
MS_PER_HOUR == 3600000

\* Date.now() when the process starts: any value larger than every delay the
\* limiter can ask for behaves like the real epoch time
StartTime == 100000

\* how far one free advance of the clock may go
TickSizes == {300}

Callers == 1..(IF MaxCalls >= MaxFifoCalls THEN MaxCalls ELSE MaxFifoCalls)

VARIABLES
    env,               \* the environment of this behaviour: how many callers
                       \* there are and which failures wrapped calls can have
    now,               \* Date.now()
    lastRequestTime,   \* utils.ts:45
    nextAvailableTime, \* utils.ts:46
    retryAfterMs,      \* utils.ts:47
    requestQueue,      \* utils.ts:49, the callers whose task closure is queued
    calls,             \* per submission: the task closure, its timer, its promise
    timerSeq,          \* number of timers created so far
    issued,            \* history: the external calls issued, in order
    backoffs,          \* history: the failures after which the call was requeued
    failures,          \* attempts that have failed so far
    config,            \* how the job is deployed in this behaviour: how many
                       \* requests trigger it, whether they may overlap, which
                       \* dumps the server serves
    runs,              \* per run of processDailyNationDump: its position and locals
    files,             \* the paths that exist in os.tmpdir()
    nation_cache,      \* the rows of the nation_cache table
    sign,              \* per handler of the sign endpoint: the request it has
                       \* in progress, or the last one it answered
    signatures,        \* the rows of the signatures table
    signatures_id_seq, \* the last value of the sequence behind signatures.id
    verified,          \* history: per nation name, its latest verified sign
    dbFailed,          \* history: a query on the signatures table has failed
    admin,             \* the request to the admin signatures endpoint in
                       \* progress, or the last one answered
    lookup,            \* the call of getNationDisplayData in progress, or the
                       \* last one that ended
    fetchedAt          \* history: per name looked up, when a lookup of it last
                       \* wrote to the cache what it had fetched

limiterVars == <<env, now, lastRequestTime, nextAvailableTime, retryAfterMs,
                 requestQueue, calls, timerSeq, issued, backoffs, failures>>

dumpVars == <<config, runs, files, nation_cache>>

signVars == <<sign, signatures, signatures_id_seq, verified, dbFailed>>

adminVars == <<admin>>

lookVars == <<lookup, fetchedAt>>

\* what the limiter does not touch
appVars == <<dumpVars, signVars, adminVars, lookVars>>

vars == <<limiterVars, dumpVars, signVars, adminVars, lookVars>>

\* ------------------------------------------------------------ JS helpers
Max2(a, b) == IF a >= b THEN a ELSE b
Max3(a, b, c) == Max2(a, Max2(b, c))

\* a header value as headers.get() returns it: null (absent), or a string
\* written as the sequence of its characters
NullHeader == [present |-> FALSE, text |-> <<>>]
Str(chars) == [present |-> TRUE, text |-> chars]
DigitChars == {"0", "1", "2", "3", "4", "5", "6", "7", "8", "9"}
DigitVal(ch) == CASE ch = "0" -> 0 [] ch = "1" -> 1 [] ch = "2" -> 2 [] ch = "3" -> 3
                  [] ch = "4" -> 4 [] ch = "5" -> 5 [] ch = "6" -> 6 [] ch = "7" -> 7
                  [] ch = "8" -> 8 [] ch = "9" -> 9

RECURSIVE SkipSpace(_)
SkipSpace(s) == IF s # <<>> /\ Head(s) = " " THEN SkipSpace(Tail(s)) ELSE s

\* value of the longest prefix of digits of s, acc being the value read so far
RECURSIVE ReadDigits(_, _)
ReadDigits(s, acc) ==
    IF s # <<>> /\ Head(s) \in DigitChars
    THEN ReadDigits(Tail(s), 10 * acc + DigitVal(Head(s)))
    ELSE acc

\* a JS number: NaN, or an integer
NaN == [nan |-> TRUE, val |-> 0]
Num(n) == [nan |-> FALSE, val |-> n]

\* parseInt(s, 10) of the characters s of a string
ParseInt(s) ==
    LET t == SkipSpace(s)
        neg == t # <<>> /\ Head(t) = "-"
        u == IF t # <<>> /\ Head(t) \in {"-", "+"} THEN Tail(t) ELSE t
    IN IF u = <<>> \/ Head(u) \notin DigitChars THEN NaN
       ELSE IF neg THEN Num(0 - ReadDigits(u, 0)) ELSE Num(ReadDigits(u, 0))

\* JS truthiness of a header value: null and the empty string are falsy
Truthy(h) == h.present /\ h.text # <<>>

\* ------------------------------------------------- outcomes of apiCall()
INTERNAL_SERVER_ERROR == 500
Headers == {NullHeader, Str(<<>>), Str(<<"0">>), Str(<<"-", "1">>), Str(<<"x">>),
            Str(<<"2">>)}
\* what apiCall() can throw: a FetchError carrying the response (its status and
\* its Retry-After header), or an error without a response (network failure)
NetworkError == [hasResponse |-> FALSE, status |-> 0, retryAfter |-> NullHeader]
HttpError(status, header) ==
    [hasResponse |-> TRUE, status |-> status, retryAfter |-> header]
Errors == {NetworkError, HttpError(INTERNAL_SERVER_ERROR, Str(<<"2">>))}
              \cup {HttpError(TOO_MANY_REQUESTS, h) : h \in Headers}

\* error?.response?.status === 429
Is429(e) == e.hasResponse /\ e.status = TOO_MANY_REQUESTS
\* error?.response?.headers?.get('Retry-After')
RetryHeaderOf(e) == IF e.hasResponse THEN e.retryAfter ELSE NullHeader

\* ------------------------------------------------------- limiter, pure part
\* utils.ts:65
RequiredDelay(retry) == IF retry > 0 THEN retry ELSE DEFAULT_MIN_DELAY_MS

\* mutation: the wait is computed from the default interval alone
TimeToWaitDefaultOnly(t, next, last, retry) ==
    Max3(0, next - t, DEFAULT_MIN_DELAY_MS - (t - last))

\* utils.ts:66
TimeToWait(t, next, last, retry) ==
    Max3(0, next - t, RequiredDelay(retry) - (t - last))

\* mutation: the Retry-After header is looked up where no error has it
IsBackoffNever(e) == FALSE

\* mutation: the status is not looked at
IsBackoffAnyStatus(e) == Truthy(RetryHeaderOf(e))

\* utils.ts:86, the failure is a back-off signal the limiter acts on
IsBackoff(e) == Is429(e) /\ Truthy(RetryHeaderOf(e))

\* utils.ts:87, parseInt(retryHeader, 10) * 1000; NaN * 1000 is NaN
ParsedRetryAfter(header) ==
    LET p == ParseInt(header.text)
    IN IF p.nan THEN NaN ELSE Num(p.val * MS_PER_SECOND)

\* utils.ts:88; NaN > 0 is false
NewRetryAfter(header) ==
    LET parsedRetryAfter == ParsedRetryAfter(header)
    IN IF ~parsedRetryAfter.nan /\ parsedRetryAfter.val > 0 THEN parsedRetryAfter.val
       ELSE DEFAULT_MIN_DELAY_MS * FALLBACK_FACTOR

NoValue == [kind |-> "none"]
Result(c, k) == [kind |-> "result", by |-> c, attempt |-> k]
Failure(e) == [kind |-> "error", error |-> e]
NoCall == [task |-> "none", due |-> 0, delay |-> 0, seq |-> 0,
           promise |-> "unsubmitted", value |-> NoValue, settles |-> 0,
           attempts |-> 0, last |-> NoValue]

\* utils.ts:63-72,102: the task closure of caller c runs: it reads the clock and
\* the limiter state and arms its timer
RunTask(cs, c, t, next, last, retry, seq) ==
    [cs EXCEPT ![c].task = "timer",
               ![c].due = t + TimeToWait(t, next, last, retry),
               ![c].delay = RequiredDelay(retry),
               ![c].seq = seq + 1]

\* mutation: the task closure is pushed twice
EnqueueTwice(q, c) == Append(Append(q, c), c)

\* utils.ts:62-63: enqueue() pushes the task closure of caller c
Enqueue(q, c) == Append(q, c)

\* resolve(result) / reject(error): only the first settlement takes effect
Settle(cs, c, how, v) ==
    [cs EXCEPT ![c].promise = IF cs[c].promise = "pending" THEN how ELSE @,
               ![c].value = IF cs[c].promise = "pending" THEN v ELSE @,
               ![c].settles = @ + 1]

\* ---------------------------------------------------------------- actions
LimiterInit(nCalls, errors) ==
    /\ env = [calls |-> nCalls, errors |-> errors]
    /\ now = StartTime
    /\ lastRequestTime = 0
    /\ nextAvailableTime = 0
    /\ retryAfterMs = 0
    /\ requestQueue = <<>>
    /\ calls = [c \in Callers |-> NoCall]
    /\ timerSeq = 0
    /\ issued = <<>>
    /\ backoffs = {}
    /\ failures = 0

\* utils.ts:57-116: throttledNsFetch(apiCall, url).  Callers are numbered in the
\* order in which they call.
ThrottledNsFetch(c) ==
    /\ c <= env.calls
    /\ calls[c].task = "none"
    /\ \A d \in Callers : d < c => calls[d].task # "none"
    /\ LET pending == [calls EXCEPT ![c].promise = "pending"]
           q == Enqueue(requestQueue, c)
       IN IF Len(requestQueue) = 0
          THEN \* utils.ts:108-111, shift() gives undefined on an empty queue
               IF q # <<>>
               THEN /\ requestQueue' = Tail(q)
                    /\ calls' = RunTask(pending, Head(q), now, nextAvailableTime,
                                        lastRequestTime, retryAfterMs, timerSeq)
                    /\ timerSeq' = timerSeq + 1
               ELSE /\ requestQueue' = q
                    /\ calls' = pending
                    /\ timerSeq' = timerSeq
          ELSE \* utils.ts:113
               /\ requestQueue' = q
               /\ calls' = [pending EXCEPT ![c].task = "queued"]
               /\ timerSeq' = timerSeq
    /\ UNCHANGED <<env, now, lastRequestTime, nextAvailableTime, retryAfterMs,
                   issued, backoffs, failures, dumpVars, adminVars, lookVars>>

\* a caller other than the sign handler calls throttledNsFetch
Submit(c) == ThrottledNsFetch(c) /\ UNCHANGED signVars

Armed == {c \in Callers : calls[c].task = "timer"}

\* the armed timer the event loop runs next
FirstTimer(c) ==
    /\ c \in Armed
    /\ \A d \in Armed :
          \/ calls[c].due < calls[d].due
          \/ calls[c].due = calls[d].due /\ calls[c].seq <= calls[d].seq

\* utils.ts:72-74: the timer of caller c fires and apiCall() is invoked; the
\* timer is gone
TimerFire(c) ==
    /\ FirstTimer(c)
    /\ calls[c].due <= now
    /\ calls' = [calls EXCEPT ![c].task = "inflight", ![c].attempts = @ + 1,
                              ![c].due = 0, ![c].seq = 0]
    /\ issued' = Append(issued, [by |-> c, at |-> now, attempt |-> calls[c].attempts + 1])
    /\ UNCHANGED <<env, now, lastRequestTime, nextAvailableTime, retryAfterMs,
                   requestQueue, timerSeq, backoffs, failures, appVars>>

\* mutation: the queue is not looked at after a call
ProcessNextSkipped(cs, q, t, next, last, retry, seq) == [cs |-> cs, q |-> q, seq |-> seq]

\* utils.ts:95-100: the finally block starts the next queued task, if any
ProcessNext(cs, q, t, next, last, retry, seq) ==
    IF Len(q) > 0
    THEN [cs |-> RunTask(cs, Head(q), t, next, last, retry, seq), q |-> Tail(q),
          seq |-> seq + 1]
    ELSE [cs |-> cs, q |-> q, seq |-> seq]

\* utils.ts:74-80 and 95-100: apiCall() of caller c resolves
CompleteOk(c) ==
    /\ calls[c].task = "inflight"
    /\ LET result == Result(c, calls[c].attempts)
           done == [calls EXCEPT ![c].task = "done", ![c].last = result, ![c].delay = 0]
           settled == Settle(done, c, "resolved", result)
           nxt == ProcessNext(settled, requestQueue, now, now + calls[c].delay, now, 0,
                              timerSeq)
       IN /\ lastRequestTime' = now
          /\ retryAfterMs' = 0
          /\ nextAvailableTime' = now + calls[c].delay
          /\ calls' = nxt.cs
          /\ requestQueue' = nxt.q
          /\ timerSeq' = nxt.seq
    /\ UNCHANGED <<env, now, issued, backoffs, failures, appVars>>

\* utils.ts:81-100: apiCall() of caller c throws e
CompleteError(c, e) ==
    /\ calls[c].task = "inflight"
    /\ e \in env.errors
    /\ failures < MaxFailures
    /\ failures' = failures + 1
    /\ LET failed == [calls EXCEPT ![c].last = Failure(e)]
       IN IF IsBackoff(e)
          THEN LET retry == NewRetryAfter(RetryHeaderOf(e))
                   q == Enqueue(requestQueue, c)
                   queued == [failed EXCEPT ![c].task = "queued"]
                   nxt == ProcessNext(queued, q, now, nextAvailableTime,
                                      lastRequestTime, retry, timerSeq)
               IN /\ retryAfterMs' = retry
                  /\ backoffs' = backoffs \cup
                         {[by |-> c, attempt |-> calls[c].attempts, at |-> now,
                           header |-> RetryHeaderOf(e), wait |-> retry,
                           issuedBefore |-> Len(issued)]}
                  /\ calls' = nxt.cs
                  /\ requestQueue' = nxt.q
                  /\ timerSeq' = nxt.seq
          ELSE LET done == [failed EXCEPT ![c].task = "done", ![c].delay = 0]
                   settled == Settle(done, c, "rejected", Failure(e))
                   nxt == ProcessNext(settled, requestQueue, now, nextAvailableTime,
                                      lastRequestTime, retryAfterMs, timerSeq)
               IN /\ retryAfterMs' = retryAfterMs
                  /\ backoffs' = backoffs
                  /\ calls' = nxt.cs
                  /\ requestQueue' = nxt.q
                  /\ timerSeq' = nxt.seq
    /\ UNCHANGED <<env, now, lastRequestTime, nextAvailableTime, issued, appVars>>

\* some call can still read the clock.  The limiter only compares the clock
\* with times it took from it, so time that passes before the first call or
\* after the last has ended changes nothing.
ClockObserved ==
    /\ \E c \in Callers : calls[c].task # "none"
    /\ \E c \in Callers : c <= env.calls /\ calls[c].task # "done"

\* the clock advances while no timer is due
Tick(d) ==
    /\ now + d <= StartTime + MaxTicks * d
    /\ ClockObserved
    /\ \A c \in Armed : calls[c].due > now
    /\ now' = now + d
    /\ UNCHANGED <<env, lastRequestTime, nextAvailableTime, retryAfterMs, requestQueue,
                   calls, timerSeq, issued, backoffs, failures, appVars>>

\* the clock reaches the expiry of the next timer
AwaitTimer ==
    /\ Armed # {}
    /\ \A c \in Armed : calls[c].due > now
    /\ \E c \in Armed : FirstTimer(c) /\ now' = calls[c].due
    /\ UNCHANGED <<env, lastRequestTime, nextAvailableTime, retryAfterMs,
                   requestQueue, calls, timerSeq, issued, backoffs, failures, appVars>>

\* ------------------------------------------------- dump ingestion, pure part
Runs == 1..(IF MaxRuns >= MaxRepeatRuns THEN MaxRuns ELSE MaxRepeatRuns)
Min2(a, b) == IF a <= b THEN a ELSE b

\* strings are sequences of characters
DigitChar(d) == CASE d = 0 -> "0" [] d = 1 -> "1" [] d = 2 -> "2" [] d = 3 -> "3"
                  [] d = 4 -> "4" [] d = 5 -> "5" [] d = 6 -> "6" [] d = 7 -> "7"
                  [] d = 8 -> "8" [] d = 9 -> "9"
RECURSIVE Decimal(_)
Decimal(k) == IF k < 10 THEN <<DigitChar(k)>>
              ELSE Append(Decimal(k \div 10), DigitChar(k % 10))

\* the k-th NATION element of a dump as xml2js hands it over (explicitArray:
\* false): a field the element lacks is undefined.  Every third name holds a
\* quote, every fourth record has no FLAG, every fifth no REGION.
NationName(k) == IF k % 3 = 0 THEN <<"o", "'">> \o Decimal(k) ELSE <<"n">> \o Decimal(k)
Nation(k, nameless) ==
    [hasNAME |-> k \notin nameless,
     NAME |-> IF k \in nameless THEN <<>> ELSE NationName(k),
     FLAG |-> IF k % 4 = 0 THEN <<>> ELSE <<"f">> \o Decimal(k),
     REGION |-> IF k % 5 = 0 THEN <<>> ELSE <<"r", "'">> \o Decimal(k % 2)]

\* a dump: n NATION elements, those at the positions nameless without a NAME
DumpSizes == (0..MaxSmallDump) \cup {BATCH_SIZE + 1}
NamelessChoices(n) ==
    {x \in SUBSET {1, n} : x \subseteq 1..n /\ Cardinality(x) <= MaxNameless}
Dumps == UNION {{[n |-> n, nameless |-> b] : b \in NamelessChoices(n)} : n \in DumpSizes}
NoDump == [n |-> 0, nameless |-> {}]

\* nsApi.ts:444-445, result.NATIONS.NATION: with explicitArray false xml2js
\* gives an array only for two or more NATION children
NationsIsArray(d) == d.n >= 2
Nations(d) == [k \in 1..d.n |-> Nation(k, d.nameless)]

\* s.replace(/'/g, "''")
RECURSIVE EscapeQuotes(_)
EscapeQuotes(s) ==
    IF s = <<>> THEN <<>>
    ELSE IF Head(s) = "'" THEN <<"'", "'">> \o EscapeQuotes(Tail(s))
    ELSE <<Head(s)>> \o EscapeQuotes(Tail(s))

\* the text the database reads from the body of a quoted literal
RECURSIVE ReadLiteral(_)
ReadLiteral(s) ==
    IF s = <<>> THEN <<>>
    ELSE IF Head(s) = "'" /\ Len(s) >= 2 /\ s[2] = "'"
         THEN <<"'">> \o ReadLiteral(Tail(Tail(s)))
    ELSE <<Head(s)>> \o ReadLiteral(Tail(s))

FLAG_URL_PREFIX == <<"https://www.nationstates.net/images/flags/">>
FLAG_URL_SUFFIX == <<".jpg">>
UNKNOWN_REGION == <<"Unknown Region">>

\* nsApi.ts:459-463: the VALUES tuple of one nation (NAME is present)
ValueOf(nation) ==
    LET flagCode == nation.FLAG
        flagUrl == IF flagCode # <<>> THEN FLAG_URL_PREFIX \o flagCode \o FLAG_URL_SUFFIX
                   ELSE <<>>
        region == IF nation.REGION # <<>> THEN nation.REGION ELSE UNKNOWN_REGION
    IN [nationName |-> EscapeQuotes(nation.NAME),
        flagUrl |-> EscapeQuotes(flagUrl),
        region |-> EscapeQuotes(region)]

\* nsApi.ts:467-471: what the database reads from the VALUES tuple of a nation
RowOf(nation) ==
    LET values == ValueOf(nation)
    IN [nationName |-> ReadLiteral(values.nationName),
        flagUrl |-> ReadLiteral(values.flagUrl),
        region |-> ReadLiteral(values.region)]

\* the rows of the records that have a name, by position in the dump
NamedRows == [k \in 1..(BATCH_SIZE + 1) |-> RowOf(Nation(k, {}))]

\* nsApi.ts:467-471: the rows the statement for nations lo..hi writes at time t
\* ("lastUpdated" is NOW() for a new row and for a row in conflict)
RowsOf(d, lo, hi, t) ==
    {LET row == IF k \in d.nameless THEN RowOf(Nation(k, d.nameless)) ELSE NamedRows[k]
     IN [nationName |-> row.nationName, flagUrl |-> row.flagUrl, region |-> row.region,
         lastUpdated |-> t] : k \in lo..hi}

\* mutation: the rows are added whether or not the name is there
UpsertInsertOnly(cache, rows) == cache \cup rows

\* INSERT ... ON CONFLICT ("nationName") DO UPDATE
Upsert(cache, rows) ==
    LET names == {w.nationName : w \in rows}
    IN {r \in cache : r.nationName \notin names} \cup rows

\* mutation: a batch with a nameless record is not noticed
BatchThrowsNever(d, lo, hi) == FALSE

\* nsApi.ts:458-463: nation.NAME.replace throws a TypeError when NAME is undefined
BatchThrows(d, lo, hi) == \E k \in lo..hi : ~Nation(k, d.nameless).hasNAME

\* nsApi.ts:456-475: the loop over the batches; i counts from 0 as in the code.
\* It ends normally or with the TypeError of the first nameless record, after
\* the statements of the earlier batches have been sent.
RECURSIVE BatchLoop(_, _, _, _)
BatchLoop(d, i, promises, processed) ==
    IF i >= d.n THEN [threw |-> FALSE, promises |-> promises, processed |-> processed]
    ELSE LET lo == i + 1
             hi == Min2(i + BATCH_SIZE, d.n)
         IN IF BatchThrows(d, lo, hi)
            THEN [threw |-> TRUE, promises |-> promises, processed |-> processed]
            ELSE BatchLoop(d, i + BATCH_SIZE,
                           Append(promises, [lo |-> lo, hi |-> hi, state |-> "pending"]),
                           processed + (hi - lo + 1))

NoResult == [returned |-> FALSE, success |-> FALSE, counted |-> FALSE,
             nationsProcessed |-> 0]
Success(n) == [returned |-> TRUE, success |-> TRUE, counted |-> TRUE,
               nationsProcessed |-> n]
Failed == [returned |-> TRUE, success |-> FALSE, counted |-> FALSE,
           nationsProcessed |-> 0]
\* a request to the trigger endpoint: its method and whether it carries the
\* cookie of an admin session (auth.ts:16-20, isAuthenticated)
NoRequest == [method |-> "none", admin |-> FALSE]
TriggerRequests == [method : {"GET", "POST"}, admin : BOOLEAN]
\* xmlData and nations count the records held in the decompressed text and in
\* the parsed array; request, failedAt, applied and returnedAt are history
IdleRun == [pc |-> "idle", tempFilePath |-> 0, dump |-> NoDump, nationsProcessed |-> 0,
            updatePromises |-> <<>>, unlinks |-> 0, unlinking |-> FALSE,
            result |-> NoResult, fault |-> FALSE,
            request |-> NoRequest, failedAt |-> "none", xmlData |-> 0, nations |-> 0,
            applied |-> <<>>, returnedAt |-> 0]
\* history: the environment made a step of the run fail
Fault(run) == [run EXCEPT !.fault = TRUE]
\* history: the stage at which the environment made the run fail
FaultAt(run, stage) == [Fault(run) EXCEPT !.failedAt = stage]

\* mutation: the catch block returns the failure without the unlink
CatchNoUnlink(run) == [run EXCEPT !.pc = "done", !.result = Failed]

\* nsApi.ts:488-495: the catch block issues the unlink and returns the failure
Catch(run) ==
    [run EXCEPT !.pc = "done", !.result = Failed,
                !.unlinks = @ + 1, !.unlinking = TRUE]

\* nsApi.ts:478-486: the unlink is issued and the success is returned
ReturnSuccess(run) ==
    [run EXCEPT !.pc = "done", !.result = Success(run.nationsProcessed),
                !.unlinks = @ + 1, !.unlinking = TRUE]

\* ------------------------------------------------ dump ingestion, actions
DumpIdle ==
    /\ runs = [r \in Runs |-> IdleRun]
    /\ files = {}
    /\ nation_cache = {}

\* the trigger endpoint gets nRuns requests, each one of requests; they overlap
\* or come one after the other; the server serves one of dumps, the same one
\* every time or not
Deployed(nRuns, requests, concurrent, dumps, sameDump) ==
    config = [runs |-> nRuns, requests |-> requests, concurrent |-> concurrent,
              dumps |-> dumps, sameDump |-> sameDump]

\* nsApi.ts:407-415: processDailyNationDump() is called at time t and runs up to
\* the await of fetch(); the server will serve d
StartRun(run, d, t) ==
    [run EXCEPT !.pc = "fetching", !.tempFilePath = t, !.dump = d]

Over(run) == run.pc \in {"done", "refused"}

\* trigger-dump-update.ts:10-17: the handler of the trigger endpoint takes a
\* request: any method but POST is answered 405, a POST starts the job
TriggerDumpUpdate(r, req, d) ==
    /\ r <= config.runs
    /\ req \in config.requests
    /\ d \in config.dumps
    /\ runs[r].pc = "idle"
    /\ \A q \in Runs : q < r => runs[q].pc # "idle"
    /\ config.concurrent \/ \A q \in Runs : q < r => Over(runs[q])
    /\ config.sameDump =>
          \A q \in Runs : (q < r /\ runs[q].pc # "refused") => runs[q].dump = d
    /\ runs' = [runs EXCEPT ![r] =
                   IF req.method # "POST"
                   THEN [@ EXCEPT !.pc = "refused", !.request = req]
                   ELSE StartRun([@ EXCEPT !.request = req], d, now)]
    /\ UNCHANGED <<limiterVars, signVars, adminVars, lookVars, config, files, nation_cache>>

\* the milliseconds an answer of the dump server can take to arrive
FetchTimes == {1}

\* nsApi.ts:415-423: fetch() settles: it rejects, or gives a response that is
\* not ok, has no body, or is good; on a good one the write stream creates
\* the file
FetchSettles(r, outcome) ==
    /\ runs[r].pc = "fetching"
    /\ IF outcome = "good"
       THEN /\ runs' = [runs EXCEPT ![r].pc = "downloading"]
            /\ files' = files \cup {runs[r].tempFilePath}
       ELSE /\ runs' = [runs EXCEPT ![r] = Catch(FaultAt(@, "fetch"))]
            /\ files' = files
    /\ \E d \in FetchTimes : now' = now + d
    /\ UNCHANGED <<env, lastRequestTime, nextAvailableTime, retryAfterMs, requestQueue,
                   calls, timerSeq, issued, backoffs, failures, signVars, adminVars,
                   lookVars, config, nation_cache>>

\* nsApi.ts:424: the pipeline into the file ends or fails
DownloadSettles(r, ok) ==
    /\ runs[r].pc = "downloading"
    /\ runs' = [runs EXCEPT ![r] = IF ok THEN [@ EXCEPT !.pc = "decompressing"]
                                   ELSE Catch(FaultAt(@, "download"))]
    /\ UNCHANGED <<limiterVars, signVars, adminVars, lookVars, config, files, nation_cache>>

\* nsApi.ts:428-440: the gunzip stream ends, every chunk appended to xmlData
\* (431-434), or emits an error
DecompressSettles(r, ok) ==
    /\ runs[r].pc = "decompressing"
    /\ runs' = [runs EXCEPT ![r] =
                   IF ok THEN [@ EXCEPT !.pc = "parsing", !.xmlData = runs[r].dump.n]
                   ELSE Catch(FaultAt(@, "decompress"))]
    /\ UNCHANGED <<limiterVars, signVars, adminVars, lookVars, config, files, nation_cache>>

\* nsApi.ts:444-477: parseStringPromise settles; on a parsed document the
\* array check and the whole batch loop run, up to the await of Promise.all
ParseSettles(r, ok) ==
    /\ runs[r].pc = "parsing"
    /\ LET d == runs[r].dump
           loop == BatchLoop(d, 0, <<>>, 0)
           parsed == [runs[r] EXCEPT !.nations = d.n]
           sent == [parsed EXCEPT !.updatePromises = loop.promises,
                                  !.nationsProcessed = loop.processed]
       IN runs' = [runs EXCEPT ![r] =
                      IF ~ok THEN Catch(FaultAt(@, "parse"))
                      ELSE IF ~NationsIsArray(d) THEN Catch(parsed)
                      ELSE IF loop.threw THEN Catch(sent)
                      ELSE [sent EXCEPT !.pc = "awaiting"]]
    /\ UNCHANGED <<limiterVars, signVars, adminVars, lookVars, config, files, nation_cache>>

\* nsApi.ts:472, db.run(sql) of statement k settles: the rows are written, or
\* the query fails
UpsertSettles(r, k, ok) ==
    /\ k \in DOMAIN runs[r].updatePromises
    /\ runs[r].updatePromises[k].state = "pending"
    /\ LET p == runs[r].updatePromises[k]
       IN IF ok
          THEN /\ nation_cache' = Upsert(nation_cache, RowsOf(runs[r].dump, p.lo, p.hi, now))
               /\ runs' = [runs EXCEPT ![r].updatePromises[k].state = "fulfilled",
                                       ![r].applied = Append(@, k)]
          ELSE /\ nation_cache' = nation_cache
               /\ runs' = [runs EXCEPT ![r].updatePromises[k].state = "rejected",
                                       ![r].fault = TRUE, ![r].failedAt = "upsert"]
    /\ UNCHANGED <<limiterVars, signVars, adminVars, lookVars, config, files>>

\* mutation: the statements are awaited with their rejections ignored
AllSettledIgnoringRejections(r) ==
    /\ runs[r].pc = "awaiting"
    /\ \A k \in DOMAIN runs[r].updatePromises : runs[r].updatePromises[k].state # "pending"
    /\ runs' = [runs EXCEPT ![r] = [ReturnSuccess(@) EXCEPT !.returnedAt = now]]
    /\ UNCHANGED <<limiterVars, signVars, adminVars, lookVars, config, files, nation_cache>>

\* nsApi.ts:477-486 and 488-495: Promise.all settles: it rejects with the first
\* rejected statement, or is fulfilled once all are
AllSettles(r) ==
    /\ runs[r].pc = "awaiting"
    /\ LET ps == runs[r].updatePromises
       IN \/ /\ \E k \in DOMAIN ps : ps[k].state = "rejected"
             /\ runs' = [runs EXCEPT ![r] = Catch(@)]
          \/ /\ \A k \in DOMAIN ps : ps[k].state = "fulfilled"
             /\ runs' = [runs EXCEPT ![r] = [ReturnSuccess(@) EXCEPT !.returnedAt = now]]
    /\ UNCHANGED <<limiterVars, signVars, adminVars, lookVars, config, files, nation_cache>>

\* nsApi.ts:481-484 and 491-493: fs.unlink completes; the file is gone, or
\* there was none
UnlinkCompletes(r) ==
    /\ runs[r].unlinking
    /\ runs' = [runs EXCEPT ![r].unlinking = FALSE]
    /\ files' = files \ {runs[r].tempFilePath}
    /\ UNCHANGED <<limiterVars, signVars, adminVars, lookVars, config, nation_cache>>

FetchOutcomes == {"good", "rejected", "not_ok", "no_body"}

DumpNext ==
    \/ \E r \in Runs, req \in TriggerRequests, d \in Dumps : TriggerDumpUpdate(r, req, d)
    \/ \E r \in Runs, o \in FetchOutcomes : FetchSettles(r, o)
    \/ \E r \in Runs, ok \in BOOLEAN : DownloadSettles(r, ok)
    \/ \E r \in Runs, ok \in BOOLEAN : DecompressSettles(r, ok)
    \/ \E r \in Runs, ok \in BOOLEAN : ParseSettles(r, ok)
    \/ \E r \in Runs, ok \in BOOLEAN :
          \E k \in DOMAIN runs[r].updatePromises : UpsertSettles(r, k, ok)
    \/ \E r \in Runs : AllSettles(r)
    \/ \E r \in Runs : UnlinkCompletes(r)

\* ------------------------------------------------------- sign, pure part
METHOD_NOT_ALLOWED == 405
BAD_REQUEST == 400
OK == 200

\* String.prototype.trim(): white space is removed from both ends
Whitespace == {" ", "\n", "\t", "\r"}
RECURSIVE TrimStart(_)
TrimStart(s) == IF s # <<>> /\ Head(s) \in Whitespace THEN TrimStart(Tail(s)) ELSE s
RECURSIVE TrimEnd(_)
TrimEnd(s) ==
    IF s # <<>> /\ s[Len(s)] \in Whitespace THEN TrimEnd(SubSeq(s, 1, Len(s) - 1)) ELSE s

\* mutation: the text is compared as it came
TrimNothing(s) == s

Trim(s) == TrimEnd(TrimStart(s))

\* the texts the verify endpoint can answer with, as sequences of characters
Bodies == {<<"1">>, <<" ", "1", "\n">>, <<"0">>, <<>>, <<"1", "0">>, <<"1", " ", "1">>}

\* a field of req.body: undefined, or a string (Str)
Undefined == [present |-> FALSE, text |-> <<>>]
SignNames == {Str(<<"Testlandia">>), Str(<<"Maxtopia">>)}
SignChecksums == {Str(<<"abc">>), Str(<<"xyz">>)}
SignRequestOf(method, nationName, checksum) ==
    [method |-> method, nationName |-> nationName, checksum |-> checksum]
\* the requests that arrive: those with both fields, by POST, and one of each
\* kind the handler turns away
SignRequests ==
    {SignRequestOf("POST", n, k) : n \in SignNames, k \in SignChecksums}
        \cup {SignRequestOf("GET", Str(<<"Testlandia">>), Str(<<"abc">>)),
              SignRequestOf("POST", Undefined, Str(<<"abc">>)),
              SignRequestOf("POST", Str(<<>>), Str(<<"abc">>)),
              SignRequestOf("POST", Str(<<"Testlandia">>), Undefined),
              SignRequestOf("POST", Str(<<"Testlandia">>), Str(<<>>))}

\* the handler of one sign request: its position, the request, the caller
\* number of its verify call, what verifyNation gave (returned and isVerified,
\* or raised), the status answered; body is history
IdleSign == [pc |-> "idle", method |-> "none", nationName |-> Undefined,
             checksum |-> Undefined, by |-> 0, hasBody |-> FALSE, body |-> <<>>,
             returned |-> FALSE, isVerified |-> FALSE, raised |-> FALSE,
             existingSignature |-> FALSE, status |-> 0]

\* part_001: res.status(status).json(...)
Respond(sg, status) == [sg EXCEPT !.pc = "responded", !.status = status]

\* nsApi.ts:347, 355: verifyNation returns b
VerifyReturns(sg, b) == [sg EXCEPT !.returned = TRUE, !.isVerified = b]

\* nsApi.ts:324, 350: an exception leaves verifyNation; the handler's catch
\* answers 500 (part_001:35-38)
VerifyRaises(sg) == Respond([sg EXCEPT !.raised = TRUE], INTERNAL_SERVER_ERROR)

\* mutation: the row is looked up whatever verifyNation returned
AfterVerifyUnchecked(sg) == [sg EXCEPT !.pc = "selecting"]

\* part_001:18-25: the handler goes on with the result of verifyNation, up to
\* the await of db.get
AfterVerify(sg) ==
    IF ~sg.isVerified THEN Respond(sg, BAD_REQUEST) ELSE [sg EXCEPT !.pc = "selecting"]

\* part_001:25, SELECT id FROM signatures WHERE "nationName" = $1
ExistingSignature(rows, name) == \E row \in rows : row.nationName = name

\* mutation: the row keeps its checksum
UpdateTimestampOnly(rows, name, checksum, t) ==
    {IF row.nationName = name THEN [row EXCEPT !.signedAt = t] ELSE row : row \in rows}

\* part_001:28, UPDATE signatures SET checksum = $1, "signedAt" = NOW() WHERE
\* "nationName" = $2
Update(rows, name, checksum, t) ==
    {IF row.nationName = name THEN [row EXCEPT !.checksum = checksum, !.signedAt = t]
     ELSE row : row \in rows}

\* part_001:31, INSERT INTO signatures ("nationName", checksum); id is the next
\* value of the sequence, "nationName" is UNIQUE and "signedAt" defaults to
\* NOW() (db.ts:91-94)
Insert(rows, id, name, checksum, t) ==
    IF ExistingSignature(rows, name) THEN [ok |-> FALSE, rows |-> rows]
    ELSE [ok |-> TRUE,
          rows |-> rows \cup {[id |-> id, nationName |-> name, checksum |-> checksum,
                               signedAt |-> t]}]

NotVerified == [has |-> FALSE, checksum |-> <<>>, at |-> 0]

\* ---------------------------------------------------------- sign, actions
Signers == 1..MaxSigners

SignIdle ==
    /\ sign = [h \in Signers |-> IdleSign]
    /\ signatures = {}
    /\ signatures_id_seq = 0
    /\ verified = [n \in {name.text : name \in SignNames} |-> NotVerified]
    /\ dbFailed = FALSE

\* a request can arrive at handler h: when requests overlap each handler serves
\* one, else the one handler takes a request after it has answered the one
\* before
Arrives(h) ==
    IF config.concurrent
    THEN sign[h].pc = "idle" /\ \A g \in Signers : g < h => sign[g].pc # "idle"
    ELSE h = 1 /\ sign[h].pc \in {"idle", "responded"}

\* part_001:6-18 and nsApi.ts:323-346: a sign request arrives and the handler
\* runs up to its first await.  secret tells whether
\* NEXT_PUBLIC_NS_VERIFY_TOKEN_SECRET is set.
SignRequest(h, req, secret) ==
    /\ Arrives(h)
    /\ LET fresh == [IdleSign EXCEPT !.method = req.method,
                                     !.nationName = req.nationName,
                                     !.checksum = req.checksum]
       IN IF req.method # "POST"
          THEN sign' = [sign EXCEPT ![h] = Respond(fresh, METHOD_NOT_ALLOWED)]
               /\ UNCHANGED limiterVars
          ELSE IF ~Truthy(req.nationName) \/ ~Truthy(req.checksum)
          THEN sign' = [sign EXCEPT ![h] = Respond(fresh, BAD_REQUEST)]
               /\ UNCHANGED limiterVars
          ELSE IF ~secret
          THEN \* nsApi.ts:306-308, generateNSTokenServer throws, outside the try
               sign' = [sign EXCEPT ![h] = VerifyRaises(fresh)] /\ UNCHANGED limiterVars
          ELSE \E c \in Callers :
                  /\ ThrottledNsFetch(c)
                  /\ sign' = [sign EXCEPT ![h] = [fresh EXCEPT !.pc = "verifying", !.by = c]]
    /\ UNCHANGED <<dumpVars, adminVars, lookVars, signatures, signatures_id_seq, verified,
                 dbFailed>>

\* nsApi.ts:346-355: the promise of throttledNsFetch is settled and verifyNation
\* goes on: with the text of the answer, or in its catch block
VerifyResumes(h, body) ==
    /\ sign[h].pc = "verifying"
    /\ calls[sign[h].by].promise \in {"resolved", "rejected"}
    /\ IF calls[sign[h].by].promise = "resolved"
       THEN sign' = [sign EXCEPT ![h] =
                        AfterVerify(VerifyReturns([@ EXCEPT !.hasBody = TRUE, !.body = body],
                                                  Trim(body) = <<"1">>))]
       ELSE /\ body = <<>>
            /\ IF calls[sign[h].by].value.error.hasResponse
               THEN \* nsApi.ts:349-350, error instanceof FetchError
                    sign' = [sign EXCEPT ![h].pc = "readingError"]
               ELSE sign' = [sign EXCEPT ![h] = AfterVerify(VerifyReturns(@, FALSE))]
    /\ verified' = IF sign'[h].returned /\ sign'[h].isVerified
                   THEN [verified EXCEPT ![sign[h].nationName.text] =
                            [has |-> TRUE, checksum |-> sign[h].checksum.text, at |-> now]]
                   ELSE verified
    /\ UNCHANGED <<limiterVars, dumpVars, adminVars, lookVars, signatures,
                 signatures_id_seq, dbFailed>>

\* nsApi.ts:350-355: error.response.text() settles
ReadErrorSettles(h, ok) ==
    /\ sign[h].pc = "readingError"
    /\ sign' = [sign EXCEPT ![h] = IF ok THEN AfterVerify(VerifyReturns(@, FALSE))
                                   ELSE VerifyRaises(@)]
    /\ UNCHANGED <<limiterVars, dumpVars, adminVars, lookVars, signatures,
                 signatures_id_seq, verified, dbFailed>>

\* part_001:25-31: db.get settles; the handler sends the UPDATE or the INSERT
SelectSettles(h, ok) ==
    /\ sign[h].pc = "selecting"
    /\ sign' = [sign EXCEPT ![h] =
                   IF ~ok THEN Respond(@, INTERNAL_SERVER_ERROR)
                   ELSE IF ExistingSignature(signatures, sign[h].nationName.text)
                   THEN [@ EXCEPT !.pc = "updating", !.existingSignature = TRUE]
                   ELSE [@ EXCEPT !.pc = "inserting"]]
    /\ dbFailed' = (dbFailed \/ ~ok)
    /\ UNCHANGED <<limiterVars, dumpVars, adminVars, lookVars, signatures,
                 signatures_id_seq, verified>>

\* part_001:28-32: db.run settles.  An INSERT that reaches the table takes the
\* next value of the sequence, whether or not the row is accepted.
WriteSettles(h, ok) ==
    /\ sign[h].pc \in {"updating", "inserting"}
    /\ LET name == sign[h].nationName.text
           checksum == sign[h].checksum.text
           inserted == Insert(signatures, signatures_id_seq + 1, name, checksum, now)
           done == ok /\ (sign[h].pc = "inserting" => inserted.ok)
       IN /\ signatures' = IF ~done THEN signatures
                           ELSE IF sign[h].pc = "updating"
                           THEN Update(signatures, name, checksum, now)
                           ELSE inserted.rows
          /\ signatures_id_seq' = IF ok /\ sign[h].pc = "inserting"
                                  THEN signatures_id_seq + 1 ELSE signatures_id_seq
          /\ sign' = [sign EXCEPT ![h] =
                         Respond(@, IF done THEN OK ELSE INTERNAL_SERVER_ERROR)]
          /\ dbFailed' = (dbFailed \/ ~done)
    /\ UNCHANGED <<limiterVars, dumpVars, adminVars, lookVars, verified>>

SignNext ==
    \/ \E h \in Signers, req \in SignRequests, secret \in BOOLEAN : SignRequest(h, req, secret)
    \/ \E c \in Callers : TimerFire(c)
    \/ \E c \in Callers : CompleteOk(c)
    \/ \E c \in Callers, e \in Errors : CompleteError(c, e)
    \/ AwaitTimer
    \/ \E h \in Signers, body \in Bodies : VerifyResumes(h, body)
    \/ \E h \in Signers, ok \in BOOLEAN : ReadErrorSettles(h, ok)
    \/ \E h \in Signers, ok \in BOOLEAN : SelectSettles(h, ok)
    \/ \E h \in Signers, ok \in BOOLEAN : WriteSettles(h, ok)

\* ------------------------------------------- nation display data, pure part
\* what getNationDisplayData gives: nothing yet, null, or {name, flagUrl, region}
NoData == [returned |-> FALSE, isNull |-> FALSE, name |-> <<>>, flagUrl |-> <<>>,
           region |-> <<>>]
Null == [returned |-> TRUE, isNull |-> TRUE, name |-> <<>>, flagUrl |-> <<>>,
         region |-> <<>>]
DisplayData(name, flagUrl, region) ==
    [returned |-> TRUE, isNull |-> FALSE, name |-> name, flagUrl |-> flagUrl,
     region |-> region]

\* nsApi.ts:210-213 and 373-376, SELECT ... FROM nation_cache WHERE "nationName" =
\* $1: the rows found; "nationName" is the primary key (db.ts:101)
CachedData(cache, name) == {row \in cache : row.nationName = name}

\* nsApi.ts:378-389: the answer of the lookup that only reads the cache
FromCache(cache, name) ==
    IF CachedData(cache, name) = {} THEN Null
    ELSE LET cachedData == CHOOSE row \in CachedData(cache, name) : TRUE
         IN DisplayData(name, cachedData.flagUrl, cachedData.region)

\* nsApi.ts:216-219: hoursSinceUpdate < CACHE_DURATION_HOURS, the hours being
\* the milliseconds divided by 3600000, not rounded
IsFresh(cachedData, t) == t - cachedData.lastUpdated < CACHE_DURATION_HOURS * MS_PER_HOUR

\* nsApi.ts:205, nationName.replace(/ /g, '_')
FormattedNationName(name) ==
    [i \in DOMAIN name |-> IF name[i] = " " THEN "_" ELSE name[i]]

\* the NationStates API finds a nation whatever the case of the letters in the
\* name asked for, and answers with the name as the nation wrote it
LowerChar(ch) == CASE ch = "N" -> "n" [] ch = "O" -> "o" [] OTHER -> ch
NationId(name) == [i \in DOMAIN name |-> LowerChar(name[i])]
NsNations == {Nation(1, {})}
Knows(name) ==
    \E nation \in NsNations : NationId(nation.NAME) = NationId(FormattedNationName(name))
NationData(name) ==
    CHOOSE nation \in NsNations :
        NationId(nation.NAME) = NationId(FormattedNationName(name))

\* the names getNationDisplayData is called with: that of a nation as the
\* nation wrote it, and the same in another case
LookupNames == {NationName(1), <<"N">> \o Decimal(1)}

\* nsApi.ts:266-267 and 270-280: the row the lookup writes at time t for the
\* nation data it has fetched
FetchedRow(nationData, t) ==
    [nationName |-> nationData.NAME,
     flagUrl |-> IF nationData.FLAG # <<>>
                 THEN FLAG_URL_PREFIX \o nationData.FLAG \o FLAG_URL_SUFFIX ELSE <<>>,
     region |-> nationData.REGION,
     lastUpdated |-> t]

\* nsApi.ts:283-287
FetchedData(nationData) ==
    LET row == FetchedRow(nationData, 0)
    IN DisplayData(nationData.NAME, row.flagUrl,
                   IF row.region # <<>> THEN row.region ELSE UNKNOWN_REGION)

\* one call of getNationDisplayData: live tells which version is deployed, the
\* one that asks the API (nsApi.ts:204-292) or the one that only reads the
\* cache (371-394); now is the clock read at 206; hasCached, failed, fetched,
\* requests and lastFetch are history
IdleLookup(live) ==
    [pc |-> "idle", live |-> live, nationName |-> <<>>, now |-> 0, hasCached |-> FALSE,
     notOk |-> FALSE, xml |-> "none", requests |-> 0, fetched |-> FALSE, failed |-> FALSE,
     lastFetch |-> 0, result |-> NoData, raised |-> FALSE]

LookupReturn(l, data) == [l EXCEPT !.pc = "done", !.result = data]

\* mutation: the catch block throws the error again
LookupCatchRethrow(l) == [l EXCEPT !.pc = "done", !.failed = TRUE, !.raised = TRUE]

\* nsApi.ts:288-291 and 390-393: the catch block returns null
LookupCatch(l) == [LookupReturn(l, Null) EXCEPT !.failed = TRUE]

\* ---------------------------------------------- nation display data, actions
LookupIdle ==
    /\ lookup = IdleLookup(FALSE)
    /\ fetchedAt = [n \in LookupNames |-> 0]

\* nsApi.ts:204-213 and 371-376: getNationDisplayData(name) is called and runs
\* up to the await of db.get
GetNationDisplayData(name) ==
    /\ lookup.pc \in {"idle", "done"}
    /\ lookup' = [IdleLookup(lookup.live) EXCEPT !.pc = "selecting", !.nationName = name,
                                                 !.now = now, !.lastFetch = fetchedAt[name]]
    /\ UNCHANGED <<limiterVars, dumpVars, signVars, adminVars, fetchedAt>>

\* nsApi.ts:215-242 and 378-393: db.get settles
LookupSelectSettles(ok) ==
    /\ lookup.pc = "selecting"
    /\ LET found == CachedData(nation_cache, lookup.nationName)
           seen == [lookup EXCEPT !.hasCached = found # {}]
       IN lookup' =
             IF ~ok THEN LookupCatch(lookup)
             ELSE IF ~lookup.live THEN LookupReturn(seen, FromCache(nation_cache, lookup.nationName))
             ELSE IF \E cachedData \in found : IsFresh(cachedData, lookup.now)
             THEN LookupReturn(seen, FromCache(nation_cache, lookup.nationName))
             ELSE [seen EXCEPT !.pc = "fetching", !.requests = @ + 1]
    /\ UNCHANGED <<limiterVars, dumpVars, signVars, adminVars, fetchedAt>>

\* nsApi.ts:238-250: fetch() settles: it rejects, or gives a response that is
\* ok or not
LookupFetchSettles(outcome) ==
    /\ lookup.pc = "fetching"
    /\ lookup' = IF outcome = "rejected" THEN LookupCatch(lookup)
                 ELSE [lookup EXCEPT !.pc = "reading", !.notOk = (outcome = "not_ok")]
    /\ UNCHANGED <<limiterVars, dumpVars, signVars, adminVars, fetchedAt>>

\* what the body of an answer can be: not readable, not XML, XML that does not
\* parse, XML without a NATION that has a NAME, the XML of the nation
Texts == {"failed", "plain", "malformed", "no_nation", "nation"}

\* nsApi.ts:244-256: response.text() settles
LookupTextSettles(text) ==
    /\ lookup.pc = "reading"
    /\ text = "nation" => (~lookup.notOk /\ Knows(lookup.nationName))
    /\ lookup' = IF text = "failed" THEN LookupCatch(lookup)
                 ELSE IF lookup.notOk \/ text = "plain" THEN LookupReturn(lookup, Null)
                 ELSE [lookup EXCEPT !.pc = "parsing", !.xml = text]
    /\ UNCHANGED <<limiterVars, dumpVars, signVars, adminVars, fetchedAt>>

\* nsApi.ts:256-280: parseStringPromise settles; the handler returns null or
\* sends the DELETE or the upsert
LookupParseSettles ==
    /\ lookup.pc = "parsing"
    /\ lookup' = IF lookup.xml = "malformed" THEN LookupCatch(lookup)
                 ELSE IF lookup.xml = "no_nation"
                 THEN IF lookup.hasCached THEN [lookup EXCEPT !.pc = "deleting"]
                      ELSE LookupReturn(lookup, Null)
                 ELSE [lookup EXCEPT !.pc = "upserting", !.fetched = TRUE]
    /\ UNCHANGED <<limiterVars, dumpVars, signVars, adminVars, fetchedAt>>

\* nsApi.ts:264-267 and 270-287: db.run settles
LookupWriteSettles(ok) ==
    /\ lookup.pc \in {"deleting", "upserting"}
    /\ IF ~ok
       THEN /\ lookup' = LookupCatch(lookup)
            /\ UNCHANGED <<nation_cache, fetchedAt>>
       ELSE IF lookup.pc = "deleting"
       THEN /\ nation_cache' = nation_cache \ CachedData(nation_cache, lookup.nationName)
            /\ lookup' = LookupReturn(lookup, Null)
            /\ UNCHANGED fetchedAt
       ELSE LET nationData == NationData(lookup.nationName)
            IN /\ nation_cache' = Upsert(nation_cache, {FetchedRow(nationData, now)})
               /\ lookup' = LookupReturn(lookup, FetchedData(nationData))
               /\ fetchedAt' = [fetchedAt EXCEPT ![lookup.nationName] = now]
    /\ UNCHANGED <<limiterVars, config, runs, files, signVars, adminVars>>

\* half a cache lifetime passes
HalfDay == (CACHE_DURATION_HOURS \div 2) * MS_PER_HOUR
Later ==
    /\ now + HalfDay <= StartTime + MaxHalfDays * HalfDay
    /\ now' = now + HalfDay
    /\ UNCHANGED <<env, lastRequestTime, nextAvailableTime, retryAfterMs, requestQueue,
                   calls, timerSeq, issued, backoffs, failures, appVars>>

LookupFetchOutcomes == {"rejected", "not_ok", "ok"}

LookupNext ==
    \/ \E name \in LookupNames : GetNationDisplayData(name)
    \/ \E ok \in BOOLEAN : LookupSelectSettles(ok)
    \/ \E o \in LookupFetchOutcomes : LookupFetchSettles(o)
    \/ \E text \in Texts : LookupTextSettles(text)
    \/ LookupParseSettles
    \/ \E ok \in BOOLEAN : LookupWriteSettles(ok)
    \/ Later

\* ------------------------------------------------ admin signatures endpoint
UNAUTHORIZED == 401

\* req.cookies.admin_logged_in: undefined, or a string
AdminCookies == {Undefined, Str(<<"true">>), Str(<<"false">>)}

\* req.body.id: undefined, or a number
NoId == [present |-> FALSE, val |-> 0]
Id(n) == [present |-> TRUE, val |-> n]
\* JS truthiness of a number or undefined: undefined and 0 are falsy
TruthyId(id) == id.present /\ id.val # 0
AdminIds == {NoId} \cup {Id(n) : n \in 0..3}

AdminRequests ==
    {req \in [method : {"GET", "DELETE", "POST"}, cookie : AdminCookies, id : AdminIds] :
        req.method # "DELETE" => req.id = NoId}

\* mutation: any value of the cookie is accepted
IsAuthenticatedAnyCookie(req) == req.cookie.present

\* auth.ts:16-20, req.cookies.admin_logged_in === 'true'
IsAuthenticated(req) == req.cookie = Str(<<"true">>)

\* the handler of one request: queries counts the statements it has sent and
\* failed tells that one has failed (history); allSignatures and body are the
\* rows read and the rows answered
IdleAdmin == [pc |-> "idle", method |-> "none", cookie |-> Undefined, id |-> NoId,
              status |-> 0, queries |-> 0, failed |-> FALSE, allSignatures |-> {},
              body |-> {}]

\* part_002:17-24: a row with the display data of its nation
Enriched(signature, displayData) ==
    [id |-> signature.id, nationName |-> signature.nationName,
     checksum |-> signature.checksum, signedAt |-> signature.signedAt,
     flagUrl |-> IF displayData.isNull THEN <<>> ELSE displayData.flagUrl,
     region |-> IF displayData.isNull \/ displayData.region = <<>> THEN UNKNOWN_REGION
                ELSE displayData.region]

\* mutation: the rows with a smaller id go as well
DeleteUpTo(rows, id) == {row \in rows : row.id > id}

\* part_002:37, DELETE FROM signatures WHERE id = $1
Delete(rows, id) == {row \in rows : row.id # id}

AdminIdle == admin = IdleAdmin

\* part_002:7-14, 32-37 and 44-46: a request arrives after the one before it
\* has been answered; the handler runs up to its first await
AdminSignatures(req) ==
    /\ admin.pc \in {"idle", "responded"}
    /\ LET fresh == [IdleAdmin EXCEPT !.method = req.method, !.cookie = req.cookie,
                                      !.id = req.id]
       IN admin' =
             IF ~IsAuthenticated(req) THEN Respond(fresh, UNAUTHORIZED)
             ELSE IF req.method = "GET" THEN [fresh EXCEPT !.pc = "reading", !.queries = 1]
             ELSE IF req.method = "DELETE"
             THEN IF ~TruthyId(req.id) THEN Respond(fresh, BAD_REQUEST)
                  ELSE [fresh EXCEPT !.pc = "deleting", !.queries = 1]
             ELSE Respond(fresh, METHOD_NOT_ALLOWED)
    /\ UNCHANGED <<limiterVars, dumpVars, signVars, lookVars>>

\* part_002:14-16 and 27-30: db.all settles; the lookups of the rows are started
AdminAllSettles(ok) ==
    /\ admin.pc = "reading"
    /\ admin' = IF ok THEN [admin EXCEPT !.pc = "enriching", !.allSignatures = signatures,
                                         !.queries = @ + Cardinality(signatures)]
                ELSE Respond([admin EXCEPT !.failed = TRUE], INTERNAL_SERVER_ERROR)
    /\ UNCHANGED <<limiterVars, dumpVars, signVars, lookVars>>

\* part_002:16-26: the lookups have settled, those of the rows in unread with a
\* failed query; getNationDisplayData gives null for these (nsApi.ts:390-393)
AdminEnrichSettles(unread) ==
    /\ admin.pc = "enriching"
    /\ unread \subseteq admin.allSignatures
    /\ admin' = Respond([admin EXCEPT !.body =
                            {Enriched(signature,
                                      IF signature \in unread THEN Null
                                      ELSE FromCache(nation_cache, signature.nationName)) :
                                signature \in admin.allSignatures}],
                        OK)
    /\ UNCHANGED <<limiterVars, dumpVars, signVars, lookVars>>

\* part_002:37-42: db.run settles
AdminDeleteSettles(ok) ==
    /\ admin.pc = "deleting"
    /\ signatures' = IF ok THEN Delete(signatures, admin.id.val) ELSE signatures
    /\ admin' = IF ok THEN Respond(admin, OK)
                ELSE Respond([admin EXCEPT !.failed = TRUE], INTERNAL_SERVER_ERROR)
    /\ UNCHANGED <<limiterVars, dumpVars, sign, signatures_id_seq, verified, dbFailed,
                   lookVars>>

AdminNext ==
    \/ \E req \in AdminRequests : AdminSignatures(req)
    \/ \E ok \in BOOLEAN : AdminAllSettles(ok)
    \/ \E unread \in SUBSET signatures : AdminEnrichSettles(unread)
    \/ \E ok \in BOOLEAN : AdminDeleteSettles(ok)

\* nothing has been asked of the web endpoints
WebIdle == SignIdle /\ AdminIdle /\ LookupIdle

\* the admin endpoint after two nations have signed; the admin may have
\* deleted rows already
SignedRows ==
    Insert(Insert({}, 1, <<"Testlandia">>, <<"abc">>, StartTime).rows,
           2, <<"Maxtopia">>, <<"xyz">>, StartTime).rows
AdminInit ==
    /\ LimiterInit(0, {}) /\ DumpIdle /\ AdminIdle /\ LookupIdle
    /\ Deployed(MaxRuns, {[method |-> "POST", admin |-> TRUE]}, FALSE, Dumps, FALSE)
    /\ sign = [h \in Signers |-> IdleSign]
    /\ signatures \in SUBSET SignedRows
    /\ signatures_id_seq = Cardinality(SignedRows)
    /\ verified = [n \in {name.text : name \in SignNames} |->
                      IF \E row \in SignedRows : row.nationName = n
                      THEN LET row == CHOOSE row \in SignedRows : row.nationName = n
                           IN [has |-> TRUE, checksum |-> row.checksum, at |-> row.signedAt]
                      ELSE NotVerified]
    /\ dbFailed = FALSE
AdminSpec == AdminInit /\ [][AdminNext]_vars

\* getNationDisplayData in either version, the cache empty or holding the rows
\* of a dump of two nations
DumpedRows == RowsOf([n |-> 2, nameless |-> {}], 1, 2, StartTime)
LookupInit ==
    /\ LimiterInit(0, {}) /\ SignIdle /\ AdminIdle
    /\ Deployed(MaxRuns, {[method |-> "POST", admin |-> TRUE]}, FALSE, Dumps, FALSE)
    /\ runs = [r \in Runs |-> IdleRun]
    /\ files = {}
    /\ nation_cache \in {{}, DumpedRows}
    /\ lookup \in {IdleLookup(live) : live \in BOOLEAN}
    /\ fetchedAt = [n \in LookupNames |-> 0]
LookupSpec == LookupInit /\ [][LookupNext]_vars

\* the job as it is meant to be deployed: triggered by the operator from time
\* to time, one run at a time
AdminPost == [method |-> "POST", admin |-> TRUE]
Scheduled == Deployed(MaxRuns, {AdminPost}, FALSE, Dumps, FALSE)

Init == LimiterInit(MaxCalls, Errors) /\ DumpIdle /\ Scheduled /\ WebIdle

\* behaviours with more callers, in which the only failure is a 429 that asks
\* for two seconds
FifoInit ==
    /\ LimiterInit(MaxFifoCalls, {HttpError(TOO_MANY_REQUESTS, Str(<<"2">>))})
    /\ DumpIdle /\ Scheduled /\ WebIdle

\* the dump job alone: nobody calls the limiter
DumpInit == LimiterInit(0, {}) /\ DumpIdle /\ Scheduled /\ WebIdle

Next ==
    \/ \E c \in Callers : Submit(c)
    \/ \E c \in Callers : TimerFire(c)
    \/ \E c \in Callers : CompleteOk(c)
    \/ \E c \in Callers, e \in Errors : CompleteError(c, e)
    \/ \E d \in TickSizes : Tick(d)
    \/ AwaitTimer

Spec == Init /\ [][Next]_vars

\* every wrapped operation terminates, timers fire and time passes
Complete(c) == CompleteOk(c) \/ \E e \in Errors : CompleteError(c, e)
\* the failures a wrapped call can have in the behaviours checked for progress:
\* one that is rejected and two that are requeued
LiveErrors == {NetworkError, HttpError(TOO_MANY_REQUESTS, Str(<<"2">>)),
               HttpError(TOO_MANY_REQUESTS, Str(<<"0">>))}
LiveInit == LimiterInit(MaxCalls, LiveErrors) /\ DumpIdle /\ Scheduled /\ WebIdle
LiveSpec ==
    /\ LiveInit /\ [][Next]_vars
    /\ WF_vars(\E c \in Callers : TimerFire(c))
    /\ WF_vars(AwaitTimer)
    /\ \A c \in Callers : WF_vars(Complete(c))

FifoSpec == FifoInit /\ [][Next]_vars

DumpSpec == DumpInit /\ [][DumpNext]_vars

\* the sign endpoint, its requests handled one after the other, time passing
\* while the limiter waits; the failures a verify call can have: no answer, an
\* answer 500, an answer 429 that is retried
SignErrors == {NetworkError, HttpError(INTERNAL_SERVER_ERROR, Str(<<"2">>)),
               HttpError(TOO_MANY_REQUESTS, Str(<<"2">>))}
SignInit == LimiterInit(MaxCalls, SignErrors) /\ DumpIdle /\ Scheduled /\ WebIdle
SignSpec == SignInit /\ [][SignNext]_vars

\* the trigger endpoint as it is reachable: any client can send it a request
TriggerInit ==
    /\ LimiterInit(0, {}) /\ DumpIdle /\ WebIdle
    /\ Deployed(MaxRuns, TriggerRequests, FALSE, Dumps, FALSE)
TriggerSpec == TriggerInit /\ [][DumpNext]_vars

\* the job run again on the dump it has just processed, a dump all of whose
\* records have a name
NamedDumps == {d \in Dumps : d.nameless = {}}
RerunInit ==
    /\ LimiterInit(0, {}) /\ DumpIdle /\ WebIdle
    /\ Deployed(MaxRepeatRuns, {AdminPost}, FALSE, NamedDumps, TRUE)
RerunSpec == RerunInit /\ [][DumpNext]_vars

\* requests to the trigger endpoint that overlap, the dump being a small one
SmallDumps == {d \in Dumps : d.n <= BATCH_SIZE}
OverlapInit ==
    /\ LimiterInit(0, {}) /\ DumpIdle /\ WebIdle
    /\ Deployed(MaxRepeatRuns, {AdminPost}, TRUE, SmallDumps, FALSE)
OverlapSpec == OverlapInit /\ [][DumpNext]_vars

\* the limiter in the states a call can find it in: no call has succeeded yet,
\* or the last success was some time ago and set nextAvailableTime from the
\* delay then required; a back-off signal has set an override since, or not
ElapsedTimes == {0, 300, 700, 1500, 4000}
Overrides == {0} \cup {NewRetryAfter(h) : h \in {g \in Headers : Truthy(g)}}
WaitInit ==
    /\ env = [calls |-> 1, errors |-> {}]
    /\ now = StartTime
    /\ \/ lastRequestTime = 0 /\ nextAvailableTime = 0
       \/ \E e \in ElapsedTimes, o \in Overrides :
              /\ lastRequestTime = now - e
              /\ nextAvailableTime = lastRequestTime + RequiredDelay(o)
    /\ retryAfterMs \in Overrides
    /\ requestQueue = <<>>
    /\ calls = [c \in Callers |-> NoCall]
    /\ timerSeq = 0
    /\ issued = <<>>
    /\ backoffs = {}
    /\ failures = 0
    /\ DumpIdle /\ Scheduled /\ WebIdle
WaitNext ==
    \/ \E c \in Callers : Submit(c)
    \/ \E c \in Callers : TimerFire(c)
    \/ AwaitTimer
WaitSpec == WaitInit /\ [][WaitNext]_vars

\* sign requests that overlap: two for the same nation, every query and every
\* verify call succeeding
RaceRequests == {SignRequestOf("POST", Str(<<"Testlandia">>), k) : k \in SignChecksums}
RaceBodies == {<<"1">>, <<"0">>}
RaceInit ==
    /\ LimiterInit(MaxSigners, {}) /\ DumpIdle /\ WebIdle
    /\ Deployed(MaxRuns, {AdminPost}, TRUE, Dumps, FALSE)
RaceNext ==
    \/ \E h \in Signers, req \in RaceRequests : SignRequest(h, req, TRUE)
    \/ \E c \in Callers : TimerFire(c)
    \/ \E c \in Callers : CompleteOk(c)
    \/ AwaitTimer
    \/ \E h \in Signers, body \in RaceBodies : VerifyResumes(h, body)
    \/ \E h \in Signers : SelectSettles(h, TRUE)
    \/ \E h \in Signers : WriteSettles(h, TRUE)
RaceSpec == RaceInit /\ [][RaceNext]_vars

\* ------------------------------------------------------------------ claims
InFlight == {c \in Callers : calls[c].task = "inflight"}
Settled(c) == calls[c].promise \in {"resolved", "rejected"}
\* a 429 that carries a Retry-After value
Has429WithRetryAfter(e) ==
    e.hasResponse /\ e.status = TOO_MANY_REQUESTS
        /\ e.retryAfter.present /\ e.retryAfter.text # <<>>
LastFailed(c) == calls[c].last.kind = "error"

\* C1: at most one wrapped external call is in flight at any moment
C1_OneInFlight == Cardinality(InFlight) <= 1

\* C2: the issue times of any two external calls differ by at least the
\* minimum interval of 700 ms
C2_MinSpacing ==
    \A i, j \in DOMAIN issued :
        i < j => issued[j].at - issued[i].at >= DEFAULT_MIN_DELAY_MS

\* C3: after a 429 failure with a retry-after duration D > 0, no external call
\* (the retry or any other caller's call) is issued before D has elapsed since
\* that failure
C3_BackoffHonoured ==
    \A b \in backoffs :
        LET d == ParsedRetryAfter(b.header)
        IN (~d.nan /\ d.val > 0) =>
              \A k \in DOMAIN issued :
                  k > b.issuedBefore => issued[k].at >= b.at + d.val

\* C4: a call whose attempt fails with 429 and a retry-after value is not
\* failed: its promise stays pending and the operation is invoked again; a
\* promise is settled at most once, a resolved promise holds the result of the
\* call's last attempt, and no finished call leaves its promise pending
C4_RequeuedNotFailed ==
    \A c \in Callers :
        /\ calls[c].settles <= 1
        /\ (LastFailed(c) /\ Has429WithRetryAfter(calls[c].last.error)) =>
              calls[c].promise = "pending" /\ calls[c].task \in {"timer", "inflight"}
        /\ calls[c].promise = "resolved" =>
              /\ calls[c].value = Result(c, calls[c].attempts)
              /\ calls[c].last = calls[c].value
              /\ calls[c].task = "done"
        /\ calls[c].task = "done" => Settled(c) /\ calls[c].settles = 1

\* a call that was answered 429 has been retried and resolved with the result
\* of the retry
C4_Witness ==
    \E c \in Callers :
        /\ calls[c].attempts >= 2
        /\ calls[c].promise = "resolved"
        /\ \E b \in backoffs : b.by = c

\* C5: external calls are issued in the order of submission: the first attempt
\* of an earlier caller is issued before the first attempt of a later one
C5_FifoIssue ==
    \A k, l \in DOMAIN issued :
        (issued[k].attempt = 1 /\ issued[l].attempt = 1 /\ issued[k].by < issued[l].by)
            => k < l

\* C6: every submitted call is eventually settled and no task stays in the
\* pending queue forever
\* (a settled promise stays settled, so this is: always, eventually no
\* promise is pending and no task is queued)
NothingPending ==
    \A c \in Callers : calls[c].promise # "pending" /\ calls[c].task # "queued"
C6_EventuallySettled == []<>NothingPending

\* every caller has been settled although wrapped calls failed on the way
C6_Witness ==
    /\ \A c \in Callers : c <= env.calls => Settled(c)
    /\ failures = MaxFailures
    /\ backoffs # {}

\* C7: a 429 whose retry-after value is missing, zero, negative or unparsable
\* is a back-off signal: the call is requeued, not rejected, and the override
\* delay becomes 5 x 700 ms
OddRetryAfter(h) ==
    \/ ~h.present
    \/ ParsedRetryAfter(h).nan
    \/ ParsedRetryAfter(h).val <= 0
C7_FallbackRequeue ==
    \A c \in Callers :
        (/\ LastFailed(c)
         /\ calls[c].last.error.hasResponse
         /\ calls[c].last.error.status = TOO_MANY_REQUESTS
         /\ OddRetryAfter(calls[c].last.error.retryAfter))
        => /\ calls[c].promise = "pending"
           /\ \E b \in backoffs :
                 /\ b.by = c /\ b.attempt = calls[c].attempts
                 /\ b.wait = FALLBACK_FACTOR * DEFAULT_MIN_DELAY_MS

\* C8: when a wrapped call fails with anything other than a 429 carrying a
\* retry-after value, the promise is rejected with that same error and the
\* operation is not invoked again
C8_OtherFailureRejects ==
    \A c \in Callers :
        (LastFailed(c) /\ ~Has429WithRetryAfter(calls[c].last.error))
        => /\ calls[c].promise = "rejected"
           /\ calls[c].value = calls[c].last
           /\ calls[c].task = "done"
           /\ calls[c].settles = 1

\* a call has been rejected with the error of its only attempt, a 500 answer
\* that carries a Retry-After header
C8_Witness ==
    \E c \in Callers :
        /\ calls[c].promise = "rejected"
        /\ calls[c].attempts = 1
        /\ calls[c].value.error.status = INTERNAL_SERVER_ERROR

\* the names of the dump's records that have one
WellFormedNames(d) == {NationName(k) : k \in (1..d.n) \ d.nameless}
CachedNames == {row.nationName : row \in nation_cache}

\* C9: a run on a dump of w well-formed records and m records without a name,
\* none of whose steps the environment makes fail, ends in success with the w
\* names in the Nation Cache Store and a processed count of w
C9_NamelessSkipped ==
    \A r \in Runs :
        LET d == runs[r].dump
            w == d.n - Cardinality(d.nameless)
        IN (runs[r].pc = "done" /\ ~runs[r].fault /\ w >= 1 /\ d.nameless # {})
           => /\ runs[r].result.success
              /\ runs[r].result.nationsProcessed = w
              /\ CachedNames = WellFormedNames(d)

\* C10: a run that has reached a terminal state, success or failure at any
\* stage, has issued the deletion of its transient file
C10_UnlinkIssued ==
    \A r \in Runs : runs[r].pc = "done" => runs[r].unlinks >= 1

\* a run has ended in failure at the batch upsert stage, its file downloaded
C10_Witness ==
    \E r \in Runs :
        /\ runs[r].pc = "done"
        /\ ~runs[r].result.success
        /\ \E k \in DOMAIN runs[r].updatePromises :
              runs[r].updatePromises[k].state = "rejected"
        /\ runs[r].unlinks >= 1

\* the rows of the cache without their timestamps
Content(cache) ==
    {[nationName |-> row.nationName, flagUrl |-> row.flagUrl, region |-> row.region] :
        row \in cache}
OneRowPerName(cache) ==
    Cardinality({row.nationName : row \in cache}) = Cardinality(cache)
Succeeded(r) == runs[r].pc = "done" /\ runs[r].result.success

\* C11: when the job has run twice in succession on the same dump, both runs
\* ending in success, the Nation Cache Store holds one row per name with the
\* names, flag URLs and regions a single run leaves, and every row's
\* lastUpdated is later than the return of the first run, while after the first
\* run no row's lastUpdated was later than that return
C11_RerunIdempotent ==
    \A r \in Runs :
        LET d == runs[r].dump
            single == Content(RowsOf(d, 1, d.n, 0))
            q == r + 1
        IN /\ (Succeeded(r) /\ \A p \in Runs : p > r => runs[p].pc = "idle")
              => /\ Content(nation_cache) = single
                 /\ OneRowPerName(nation_cache)
                 /\ \A row \in nation_cache : row.lastUpdated <= runs[r].returnedAt
           /\ (q \in Runs /\ Succeeded(r) /\ Succeeded(q) /\ runs[q].dump = d)
              => /\ Content(nation_cache) = single
                 /\ OneRowPerName(nation_cache)
                 /\ Cardinality(nation_cache) = d.n
                 /\ \A row \in nation_cache : row.lastUpdated > runs[r].returnedAt

\* the job has succeeded twice on a dump of more than one batch
C11_Witness ==
    \E r, q \in Runs :
        /\ q = r + 1 /\ Succeeded(r) /\ Succeeded(q)
        /\ runs[r].dump = runs[q].dump /\ runs[r].dump.n > BATCH_SIZE
        /\ Len(runs[q].applied) = 2

\* C12: the statements of a run are applied to the Nation Cache Store in the
\* order of their batches: batch k before batch k+1
C12_BatchOrder ==
    \A r \in Runs :
        \A i, j \in DOMAIN runs[r].applied :
            i < j => runs[r].applied[i] < runs[r].applied[j]

EarlyStages == {"fetch", "download"}
FatalStages == {"fetch", "download", "decompress", "parse"}

\* C13: a run never raises: a failed download, a decompression error and a
\* parse error end the run at once, and a failed batch upsert ends it once
\* awaited, with the result {success: false, message}; a run whose download
\* failed has sent no statement to the Nation Cache Store
C13_FailureReturned ==
    \A r \in Runs :
        /\ runs[r].pc \in {"idle", "refused", "fetching", "downloading", "decompressing",
                           "parsing", "awaiting", "done"}
        /\ runs[r].failedAt \in FatalStages => runs[r].pc = "done"
        /\ runs[r].failedAt = "upsert" => runs[r].pc \in {"awaiting", "done"}
        /\ (runs[r].failedAt # "none" /\ runs[r].pc = "done") => runs[r].result = Failed
        /\ runs[r].pc = "done" <=> runs[r].result.returned
        /\ runs[r].failedAt \in EarlyStages =>
              runs[r].updatePromises = <<>> /\ runs[r].applied = <<>>

\* a run has ended in failure because a statement failed, another statement of
\* the run having been applied
C13_Witness ==
    \E r \in Runs :
        /\ runs[r].pc = "done" /\ runs[r].failedAt = "upsert"
        /\ runs[r].result = Failed
        /\ runs[r].applied # <<>>

\* C14: two runs never have the same transient file path, and the file of a
\* run exists from its download to its decompression
C14_UniqueTempPath ==
    /\ \A r, q \in Runs :
          (r # q /\ runs[r].pc \notin {"idle", "refused"}
                 /\ runs[q].pc \notin {"idle", "refused"})
          => runs[r].tempFilePath # runs[q].tempFilePath
    /\ \A r \in Runs :
          runs[r].pc \in {"downloading", "decompressing"} => runs[r].tempFilePath \in files

\* C15: a run holds at most one batch of parsed records and one more, and of a
\* dump larger than a batch it never holds the whole text or the whole list of
\* records
C15_BoundedMemory ==
    \A r \in Runs :
        /\ runs[r].nations <= BATCH_SIZE + 1
        /\ runs[r].dump.n > BATCH_SIZE =>
              /\ runs[r].xmlData < runs[r].dump.n
              /\ runs[r].nations < runs[r].dump.n

\* C16: a run of the job was started by a request of an authenticated admin
C16_AdminOnly ==
    \A r \in Runs : runs[r].pc \notin {"idle", "refused"} => runs[r].request.admin

\* the text is "1" with nothing but white space around it
IsOneInWhitespace(body) ==
    \E i \in DOMAIN body :
        /\ body[i] = "1"
        /\ \A j \in DOMAIN body : j # i => body[j] \in Whitespace
\* the verify request of handler h has ended with a 2xx answer
VerifyAnswered(h) ==
    sign[h].by # 0 /\ calls[sign[h].by].promise = "resolved" /\ sign[h].hasBody
\* verifyNation has ended, one way or the other
VerifyOver(h) == sign[h].by # 0 /\ sign[h].pc \notin {"verifying", "readingError"}

C18_VerifyNeverRaises == \A h \in Signers : ~sign[h].raised

\* C19: when the sign requests so far have been handled one after the other
\* and no query has failed, the Signature Store holds exactly one row for each
\* name that has had a verified sign, with the checksum of the latest verified
\* sign for that name and a timestamp not before that sign was verified
C19_OneRowLatestSign ==
    (~dbFailed /\ \A h \in Signers : sign[h].pc \in {"idle", "responded"}) =>
        /\ \A n \in DOMAIN verified :
              verified[n].has <=> \E row \in signatures : row.nationName = n
        /\ \A a, b \in signatures : a.nationName = b.nationName => a = b
        /\ \A row \in signatures :
              /\ row.checksum = verified[row.nationName].checksum
              /\ row.signedAt >= verified[row.nationName].at
              /\ row.signedAt <= now

\* Testlandia has signed again with xyz and its one row holds xyz
C19_Witness ==
    /\ \E h \in Signers :
          /\ sign[h].pc = "responded" /\ sign[h].status = OK /\ sign[h].existingSignature
          /\ sign[h].checksum = Str(<<"xyz">>)
    /\ ~dbFailed
    /\ \E row \in signatures :
          /\ row.nationName = <<"Testlandia">> /\ row.checksum = <<"xyz">>
          /\ row.signedAt >= StartTime + DEFAULT_MIN_DELAY_MS

\* C20: a step changes the Signature Store only for a request for which
\* verifyNation returned true, and only the row of that request's name, which
\* gets that request's checksum; so a request with a missing field or a failed
\* verification leaves the store as it was
C20_WriteOnlyIfVerified ==
    [][signatures' # signatures =>
          \E h \in Signers :
              /\ sign[h].returned /\ sign[h].isVerified
              /\ VerifyAnswered(h) /\ IsOneInWhitespace(sign[h].body)
              /\ Truthy(sign[h].nationName) /\ Truthy(sign[h].checksum)
              /\ \A row \in signatures' \ signatures :
                    /\ row.nationName = sign[h].nationName.text
                    /\ row.checksum = sign[h].checksum.text
              /\ \A row \in signatures \ signatures' :
                    row.nationName = sign[h].nationName.text]_vars

\* a first verified sign has been recorded
C20_Witness ==
    \E h \in Signers :
        /\ sign[h].pc = "responded" /\ sign[h].status = OK /\ ~sign[h].existingSignature
        /\ sign[h].isVerified
        /\ \E row \in signatures :
              /\ row.nationName = sign[h].nationName.text
              /\ row.checksum = sign[h].checksum.text

C27_NoWriteAfterReturn ==
    \A r \in Runs :
        runs[r].result.returned =>
            \A k \in DOMAIN runs[r].updatePromises :
                runs[r].updatePromises[k].state # "pending"

\* C29: a run on a dump whose records all have a name, none of whose steps
\* the environment makes fail, ends in success with the number of records as
\* its count, whatever that number is: none, one or more
C29_AnyCountSucceeds ==
    \A r \in Runs :
        (runs[r].pc = "done" /\ ~runs[r].fault /\ runs[r].dump.nameless = {})
        => runs[r].result = Success(runs[r].dump.n)

\* the run has gone through the batch loop
Batched(r) ==
    /\ runs[r].pc \in {"awaiting", "done"}
    /\ runs[r].failedAt \notin FatalStages
CeilDiv(n, m) == (n + m - 1) \div m

\* C25: a run on a dump of n records, all with a name, sends ceil(n/500)
\* statements; every statement but the last has 500 rows, the last has between
\* 1 and 500, and every record is in exactly one statement
C25_BatchPartition ==
    \A r \in Runs :
        LET n == runs[r].dump.n
            ps == runs[r].updatePromises
        IN (Batched(r) /\ runs[r].dump.nameless = {}) =>
              /\ Len(ps) = CeilDiv(n, BATCH_SIZE)
              /\ \A k \in DOMAIN ps :
                    /\ k < Len(ps) => ps[k].hi - ps[k].lo + 1 = BATCH_SIZE
                    /\ ps[k].hi - ps[k].lo + 1 \in 1..BATCH_SIZE
              /\ \A i \in 1..n :
                    Cardinality({k \in DOMAIN ps : ps[k].lo <= i /\ i <= ps[k].hi}) = 1

\* what is left of a duration d of which e has elapsed
Remaining(d, e) == Max2(0, d - e)

RowsFor(name) == {row \in signatures : row.nationName = name}

\* C28: when two sign requests for the same nation, not signed before them,
\* have both passed verification and been answered, both got a success
\* response and the store holds one row for the nation; neither ended in a
\* server error
C28_ConcurrentSignsSucceed ==
    \A g, h \in Signers :
        (/\ g # h
         /\ sign[g].pc = "responded" /\ sign[h].pc = "responded"
         /\ sign[g].isVerified /\ sign[h].isVerified
         /\ sign[g].nationName = sign[h].nationName)
        => /\ sign[g].status = OK /\ sign[h].status = OK
           /\ Cardinality(RowsFor(sign[g].nationName.text)) = 1

\* the ids of the rows of the Signature Store
Ids(rows) == {row.id : row \in rows}
\* the request the admin endpoint has taken does not carry the admin cookie
Unauthenticated == admin.pc # "idle" /\ admin.cookie # Str(<<"true">>)

\* C21: a request to the admin signatures endpoint that is not authenticated,
\* whatever its method, is answered 401 at once and sends no statement to the
\* store, and a row leaves the Signature Store only in the DELETE of an
\* authenticated request
C21_AdminRequiresAuth ==
    [][/\ Unauthenticated' =>
             /\ admin'.pc = "responded" /\ admin'.status = UNAUTHORIZED
             /\ admin'.queries = 0 /\ admin'.allSignatures = {} /\ admin'.body = {}
             /\ signatures' = signatures
       /\ ~(Ids(signatures) \subseteq Ids(signatures')) =>
             /\ admin.pc = "deleting" /\ admin.method = "DELETE"
             /\ admin.cookie = Str(<<"true">>)]_vars

\* a DELETE for the id of a row, without the cookie, has been answered 401 and
\* the row is there
C21_Witness ==
    /\ admin.pc = "responded" /\ admin.method = "DELETE" /\ admin.status = UNAUTHORIZED
    /\ admin.cookie = Str(<<"false">>)
    /\ admin.id = Id(1) /\ 1 \in Ids(signatures)

C23_LookupNullNeverThrows ==
    /\ ~lookup.raised
    /\ lookup.pc = "done" => lookup.result.returned
    /\ (lookup.pc = "done" /\ ~lookup.hasCached /\ ~lookup.fetched) => lookup.result = Null

\* a call whose query on the cache failed has returned null
C23_Witness ==
    /\ lookup.pc = "done" /\ lookup.failed /\ lookup.requests = 0
    /\ ~lookup.hasCached /\ lookup.result = Null

\* C30: a call of the version that asks the API, made less than 24 hours after
\* a call for the same name fetched the nation and wrote it to the cache,
\* sends no request to the API, and, its query on the cache succeeding, returns
\* the cached data
C30_SecondLookupFromCache ==
    (/\ lookup.live /\ lookup.pc # "idle"
     /\ lookup.lastFetch # 0
     /\ lookup.now - lookup.lastFetch < CACHE_DURATION_HOURS * MS_PER_HOUR)
    => /\ lookup.requests = 0
       /\ (lookup.pc = "done" /\ ~lookup.failed) => ~lookup.result.isNull
====
